---- MODULE Spec2Model ----
(***************************************************************************)
(* Model of lib/ansible/modules/cloud/amazon/lambda_version.py: one        *)
(* invocation of the module (main -> LambdaVersion.__init__ -> run ->      *)
(* create_version | delete_version) against the remote Lambda service,     *)
(* and, in SpecRuns, successive invocations against the same remote state. *)
(*                                                                         *)
(* LastModified values are strings in one fixed-width ISO-8601 format, so  *)
(* Python's string order on them is the order of the instants; they are    *)
(* modelled as the integers 0..MaxTime with the integer order.  The sort   *)
(* key str(datetime.max) starts with "9999" and is above every timestamp   *)
(* the service returns; it is modelled as DatetimeMax.                     *)
(***************************************************************************)
EXTENDS Integers, Sequences, FiniteSets, TLC

VARIABLES remote, created, pc, params, versions, versionsIsNone, listed, publishParams,
          requests, response, result, outcome, error, hist, runs

vars == <<remote, created, pc, params, versions, versionsIsNone, listed, publishParams,
          requests, response, result, outcome, error, hist, runs>>

\* ---------------------------------------------------------------- bounds
MaxTime == 2
MaxPublished == 2
MaxRuns == 2

\* ------------------------------------------------------------- constants
LATEST == "$LATEST"
None == "None"
VersionIds == <<"1", "2", "3", "4", "5", "6", "7", "8">>
Times == 0 .. MaxTime
DatetimeMax == MaxTime + 1

\* code hash and revision id of $LATEST held by the service, and a value
\* of each that differs from it
RemoteCodeSha256 == "sha-current"
StaleCodeSha256 == "sha-stale"
RemoteRevisionId == "rev-current"
StaleRevisionId == "rev-stale"

NoVersion == [Version |-> None, LastModified |-> 0 - 1]
NoSnapshot == [version |-> None, last_modified |-> 0 - 1]
NoResult == [changed |-> FALSE, version |-> NoSnapshot, msg |-> None]
NoError == [msg |-> None, exception |-> None]
NoPublishParams == [CodeSha256 |-> None, RevisionId |-> None]
NoParams == [state |-> None, function_version |-> None, code_sha_256 |-> None,
             revision_id |-> None, check_mode |-> FALSE]

\* ------------------------------------------------------- remote service
FunctionVersion(v, t) == [Version |-> v, LastModified |-> t]

\* the service's version set of one function: empty when the function does
\* not exist, otherwise $LATEST plus the published versions that remain
RemoteStates ==
    {{}} \cup
    { {FunctionVersion(LATEST, t)} \cup
      {FunctionVersion(VersionIds[i], f[i]) : i \in S} :
         t \in Times, S \in SUBSET (1 .. MaxPublished),
         f \in [1 .. MaxPublished -> Times] }

\* the orders in which the paginated list call can return a version set
ListOrders(S) ==
    { s \in [1 .. Cardinality(S) -> S] :
        \A i, j \in 1 .. Cardinality(S) : i # j => s[i] # s[j] }

\* the order the service usually lists in, $LATEST first and then the
\* numbered versions ascending, its reverse, and the rotations of both
IdIndex(v) == IF v = LATEST THEN 0 ELSE CHOOSE i \in 1 .. Len(VersionIds) : VersionIds[i] = v

RECURSIVE Canonical(_)
Canonical(S) ==
    IF S = {} THEN <<>>
    ELSE LET m == CHOOSE v \in S : \A w \in S : IdIndex(w.Version) <= IdIndex(v.Version)
         IN Append(Canonical(S \ {m}), m)

Rotations(S) ==
    LET c == Canonical(S)
        n == Len(c)
    IN {[i \in 1 .. n |-> c[((i + k - 1) % n) + 1]] : k \in 0 .. n - 1} \cup
       {[i \in 1 .. n |-> c[n - ((i + k - 1) % n)]] : k \in 0 .. n - 1}

\* number the service gives the next published version: numbers are never
\* reused, also after a delete
NextVersionId(n) == VersionIds[MaxPublished + n + 1]

\* answers of PublishVersion: a supplied guard that differs from $LATEST's
\* value is rejected, anything can fail in transport
PublishResponses(p) ==
    LET revBad == p.RevisionId # None /\ p.RevisionId # RemoteRevisionId
        shaBad == p.CodeSha256 # None /\ p.CodeSha256 # RemoteCodeSha256
    IN  (IF revBad THEN {"PreconditionFailedException"} ELSE {}) \cup
        (IF shaBad THEN {"InvalidParameterValueException"} ELSE {}) \cup
        (IF ~revBad /\ ~shaBad THEN {"ok"} ELSE {}) \cup
        {"ClientError"}

\* answers of DeleteFunction for a qualifier: the service refuses to delete
\* $LATEST on its own
DeleteResponses(q) ==
    IF q = LATEST THEN {"ClientError"}
    ELSE {"ok", "ResourceNotFoundException", "ResourceConflictException", "ClientError"}

\* ------------------------------------------------------ pure helpers
camel_dict_to_snake_dict(v) == [version |-> v.Version, last_modified |-> v.LastModified]

SortKeyNoSynthetic(k) == k.LastModified
SortKey(k) == IF k.Version = LATEST THEN DatetimeMax ELSE k.LastModified

RECURSIVE Insert(_, _)
Insert(s, x) ==
    IF s = <<>> THEN <<x>>
    ELSE IF SortKey(s[Len(s)]) <= SortKey(x) THEN Append(s, x)
    ELSE Append(Insert(SubSeq(s, 1, Len(s) - 1), x), s[Len(s)])

\* list.sort(key=...): stable, ascending
RECURSIVE Sort(_)
Sort(s) == IF s = <<>> THEN <<>> ELSE Insert(Sort(SubSeq(s, 1, Len(s) - 1)), s[Len(s)])

NewerOrEqual(a, b) == a.LastModified >= b.LastModified
Newer(a, b) == a.LastModified > b.LastModified

AlwaysExists(vs, function_version) == TRUE
check_version_exists(vs, function_version) ==
    \E i \in 1 .. Len(vs) : vs[i].Version = function_version

OnlyNone(isNone, vs) == isNone
NoVersions(isNone, vs) == isNone \/ vs = <<>>

GuardMessageSwapped(exc) ==
    IF exc = "PreconditionFailedException" THEN "code_sha_256 does not match $LATEST"
    ELSE "revision_id does not match $LATEST"
GuardMessage(exc) ==
    IF exc = "PreconditionFailedException" THEN "revision_id does not match $LATEST"
    ELSE "code_sha_256 does not match $LATEST"

\* ------------------------------------------------------------- inputs
FunctionVersions == {None, LATEST} \cup {VersionIds[i] : i \in 1 .. MaxPublished}

Params ==
    [state : {"present", "absent"},
     function_version : FunctionVersions,
     code_sha_256 : {None, RemoteCodeSha256, StaleCodeSha256},
     revision_id : {None, RemoteRevisionId, StaleRevisionId},
     check_mode : BOOLEAN]

\* the invocations of a playbook that is run again: a publishing task, with
\* or without a code-hash guard, or a deleting task for some identifier
RunParams ==
    [state : {"present"},
     function_version : {None},
     code_sha_256 : {None, StaleCodeSha256},
     revision_id : {None},
     check_mode : {FALSE}]
    \cup
    [state : {"absent"},
     function_version : FunctionVersions,
     code_sha_256 : {None},
     revision_id : {None},
     check_mode : {FALSE}]

\* ------------------------------------------------------------- the run
Summary(resp, out, res, made) ==
    [state |-> params.state, function_version |-> params.function_version,
     fetched |-> ~versionsIsNone /\ Len(listed) > 0,
     drift |-> /\ \E i \in 1 .. Len(listed) : listed[i].Version = LATEST
               /\ \E i \in 1 .. Len(listed) : listed[i].Version # LATEST
               /\ \A i, j \in 1 .. Len(listed) :
                     (listed[i].Version = LATEST /\ listed[j].Version # LATEST)
                        => listed[i].LastModified > listed[j].LastModified,
     response |-> resp, outcome |-> out, changed |-> res.changed,
     made |-> made # NoVersion,
     notOlder |-> /\ made # NoVersion
                  /\ \A v \in remote : v.Version = LATEST => made.LastModified >= v.LastModified]

\* the process ends: exit_json, fail_json, fail_json_aws or an uncaught exception
Finish(resp, out, res, err, made) ==
    /\ pc' = "done"
    /\ response' = resp
    /\ outcome' = out
    /\ result' = res
    /\ error' = err
    /\ hist' = Append(hist, Summary(resp, out, res, made))

Init ==
    /\ remote \in RemoteStates
    /\ created = 0
    /\ runs = 0
    /\ pc = "main"
    /\ params = NoParams
    /\ versions = <<>>
    /\ versionsIsNone = FALSE
    /\ listed = <<>>
    /\ publishParams = NoPublishParams
    /\ requests = <<>>
    /\ response = None
    /\ result = NoResult
    /\ outcome = None
    /\ error = NoError
    /\ hist = <<>>

MainWith(P) ==
    /\ pc = "main"
    /\ \E p \in P : params' = p
    /\ pc' = "__init__"
    /\ UNCHANGED <<remote, created, versions, versionsIsNone, listed, publishParams,
                   requests, response, result, outcome, error, hist, runs>>

main == MainWith(Params)

mainAgain == MainWith(RunParams)

LambdaVersionInitWith(orders) ==
    /\ pc = "__init__"
    /\ \/ /\ remote = {}
          /\ versionsIsNone' = TRUE
          /\ versions' = <<>>
          /\ listed' = <<>>
          /\ pc' = "run"
          /\ UNCHANGED <<response, outcome, result, error, hist>>
       \/ /\ remote = {}
          /\ versionsIsNone' = FALSE
          /\ versions' = <<>>
          /\ listed' = <<>>
          /\ pc' = "run"
          /\ UNCHANGED <<response, outcome, result, error, hist>>
       \/ /\ remote # {}
          /\ \E s \in orders : versions' = s /\ listed' = s
          /\ versionsIsNone' = FALSE
          /\ pc' = "run"
          /\ UNCHANGED <<response, outcome, result, error, hist>>
       \/ /\ UNCHANGED <<versions, versionsIsNone, listed>>
          /\ Finish("ClientError", "fail_json_aws", NoResult,
                    [msg |-> "Error retrieving version info for function",
                     exception |-> "ClientError"], NoVersion)
    /\ UNCHANGED <<remote, created, params, publishParams, requests, runs>>

LambdaVersion_init == LambdaVersionInitWith(ListOrders(remote))

LambdaVersion_initAgain == LambdaVersionInitWith(Rotations(remote))

run ==
    /\ pc = "run"
    /\ IF NoVersions(versionsIsNone, versions)
       THEN IF params.state = "present"
            THEN Finish(None, "fail_json", NoResult,
                        [msg |-> "Cannot create a version for function. Function does not exist.",
                         exception |-> None], NoVersion)
            ELSE Finish(None, "exit_json", NoResult, NoError, NoVersion)
       ELSE /\ pc' = IF params.state = "present" THEN "create_version" ELSE "delete_version"
            /\ UNCHANGED <<response, outcome, result, error, hist>>
    /\ UNCHANGED <<remote, created, params, versions, versionsIsNone, listed, publishParams,
                   requests, runs>>

create_version ==
    /\ pc = "create_version"
    /\ LET sorted == Sort(versions)
           n == Len(sorted)
       IN IF n < 2
          THEN /\ versions' = <<>>
               /\ publishParams' = publishParams
               /\ Finish(None, "exception", NoResult,
                         [msg |-> None, exception |-> "IndexError"], NoVersion)
          ELSE LET latest_version == sorted[n]
                   last_version == sorted[n - 1]
               IN /\ versions' = SubSeq(sorted, 1, n - 2)
                  /\ IF Newer(latest_version, last_version)
                     THEN /\ publishParams' = [CodeSha256 |-> params.code_sha_256,
                                               RevisionId |-> params.revision_id]
                          /\ pc' = "publish_version"
                          /\ UNCHANGED <<response, outcome, result, error, hist>>
                     ELSE /\ publishParams' = publishParams
                          /\ Finish(None, "exit_json",
                                    [changed |-> FALSE,
                                     version |-> camel_dict_to_snake_dict(latest_version),
                                     msg |-> None], NoError, NoVersion)
    /\ UNCHANGED <<remote, created, params, versionsIsNone, listed, requests, runs>>

publish_version ==
    /\ pc = "publish_version"
    /\ requests' = Append(requests, [op |-> "publish_version", Qualifier |-> None,
                                     CodeSha256 |-> publishParams.CodeSha256,
                                     RevisionId |-> publishParams.RevisionId])
    /\ \E resp \in PublishResponses(publishParams) :
         CASE resp = "ok" ->
                \E t \in Times :
                  LET made == FunctionVersion(NextVersionId(created), t)
                  IN /\ remote' = remote \cup {made}
                     /\ created' = created + 1
                     /\ Finish(resp, "exit_json",
                               [changed |-> TRUE, version |-> camel_dict_to_snake_dict(made),
                                msg |-> None], NoError, made)
           [] resp \in {"PreconditionFailedException", "InvalidParameterValueException"} ->
                /\ UNCHANGED <<remote, created>>
                /\ Finish(resp, "exit_json",
                          [changed |-> FALSE, version |-> NoSnapshot, msg |-> GuardMessage(resp)],
                          NoError, NoVersion)
           [] OTHER ->
                \* the handler names `module`, which is not bound in this scope
                /\ UNCHANGED <<remote, created>>
                /\ Finish(resp, "exception", NoResult,
                          [msg |-> None, exception |-> "NameError"], NoVersion)
    /\ UNCHANGED <<params, versions, versionsIsNone, listed, publishParams, runs>>

delete_version ==
    /\ pc = "delete_version"
    /\ IF params.function_version = None
       THEN Finish(None, "fail_json", NoResult,
                   [msg |-> "Cannot delete a version without function_version parameter",
                    exception |-> None], NoVersion)
       ELSE IF ~check_version_exists(versions, params.function_version)
            THEN Finish(None, "exit_json", NoResult, NoError, NoVersion)
            ELSE /\ pc' = "delete_function"
                 /\ UNCHANGED <<response, outcome, result, error, hist>>
    /\ UNCHANGED <<remote, created, params, versions, versionsIsNone, listed, publishParams,
                   requests, runs>>

delete_function ==
    /\ pc = "delete_function"
    /\ requests' = Append(requests, [op |-> "delete_function",
                                     Qualifier |-> params.function_version,
                                     CodeSha256 |-> None, RevisionId |-> None])
    /\ \E resp \in DeleteResponses(params.function_version) :
         IF resp = "ok"
         THEN /\ remote' = {v \in remote : v.Version # params.function_version}
              /\ Finish(resp, "exit_json", [NoResult EXCEPT !.changed = TRUE], NoError, NoVersion)
         ELSE \* the handler's message names function_version and function_name,
              \* which are not bound in this scope
              /\ remote' = remote
              /\ Finish(resp, "exception", NoResult,
                        [msg |-> None, exception |-> "NameError"], NoVersion)
    /\ UNCHANGED <<created, params, versions, versionsIsNone, listed, publishParams, runs>>

\* the module is invoked again against the remote state the last run left
NextRun ==
    /\ pc = "done"
    /\ runs + 1 < MaxRuns
    /\ runs' = runs + 1
    /\ hist' = <<hist[Len(hist)]>>
    /\ pc' = "main"
    /\ params' = NoParams
    /\ versions' = <<>>
    /\ versionsIsNone' = FALSE
    /\ listed' = <<>>
    /\ publishParams' = NoPublishParams
    /\ requests' = <<>>
    /\ response' = None
    /\ result' = NoResult
    /\ outcome' = None
    /\ error' = NoError
    /\ UNCHANGED <<remote, created>>

Next ==
    \/ main
    \/ LambdaVersion_init
    \/ run
    \/ create_version
    \/ publish_version
    \/ delete_version
    \/ delete_function

Spec == Init /\ [][Next]_vars

NextRuns ==
    \/ mainAgain
    \/ LambdaVersion_initAgain
    \/ run
    \/ create_version
    \/ publish_version
    \/ delete_version
    \/ delete_function
    \/ NextRun

SpecRuns == Init /\ [][NextRuns]_vars

TypeOK ==
    /\ pc \in {"main", "__init__", "run", "create_version", "publish_version",
               "delete_version", "delete_function", "done"}
    /\ remote \subseteq [Version : {LATEST} \cup {VersionIds[i] : i \in 1 .. Len(VersionIds)},
                         LastModified : Times]
    /\ params \in Params \cup {NoParams}
    /\ outcome \in {None, "exit_json", "fail_json", "fail_json_aws", "exception"}
    /\ Len(hist) <= 2
    /\ runs < MaxRuns
    /\ created <= runs + 1

\* ------------------------------------------------------------ properties
HasLatest(l) == \E i \in 1 .. Len(l) : l[i].Version = LATEST
PublishedTimes(l) == {l[i].LastModified : i \in {j \in 1 .. Len(l) : l[j].Version # LATEST}}
MaxPublishedTime(l) == CHOOSE t \in PublishedTimes(l) : \A u \in PublishedTimes(l) : u <= t
LatestTimeOf(l) == l[CHOOSE i \in 1 .. Len(l) : l[i].Version = LATEST].LastModified
PublishIssued == \E i \in 1 .. Len(requests) : requests[i].op = "publish_version"
DeleteIssued == \E i \in 1 .. Len(requests) : requests[i].op = "delete_function"
ListReturned == outcome # "fail_json_aws"
ListedNothing == versionsIsNone \/ Len(listed) = 0
PresentWithPublished ==
    /\ pc = "done" /\ params.state = "present" /\ ListReturned
    /\ HasLatest(listed) /\ PublishedTimes(listed) # {}

\* C1: a state=present run on a list holding $LATEST and a published version
\* issues a publish request exactly when $LATEST's LastModified is strictly
\* greater than the largest LastModified of the published versions.
C1_PublishIffStrictlyNewer ==
    PresentWithPublished =>
        (PublishIssued <=> LatestTimeOf(listed) > MaxPublishedTime(listed))

C1_Witness ==
    /\ PresentWithPublished
    /\ Len(listed) = 3
    /\ listed[1].Version = LATEST
    /\ listed[2].LastModified > listed[3].LastModified
    /\ PublishIssued

\* C2: when the list call yields no versions, no request is issued;
\* state=present fails with the function-does-not-exist message and
\* state=absent returns changed=false, with or without function_version.
C2_NoVersionsDispatch ==
    (pc = "done" /\ ListReturned /\ ListedNothing) =>
        /\ requests = <<>>
        /\ params.state = "present" =>
              /\ outcome = "fail_json"
              /\ error.msg = "Cannot create a version for function. Function does not exist."
        /\ params.state = "absent" =>
              /\ outcome = "exit_json"
              /\ result = NoResult

C2_Witness ==
    /\ pc = "done" /\ ListReturned
    /\ ~versionsIsNone /\ listed = <<>>
    /\ params.state = "absent" /\ params.function_version # None
    /\ outcome = "exit_json" /\ ~result.changed

\* C3: a state=absent run with function_version on an existing function
\* issues one delete request, for that qualifier, exactly when the identifier
\* is a Version of the fetched list; otherwise changed=false and no request;
\* a successful delete gives changed=true; a later state=absent run for the
\* same identifier gives changed=false.
C3_DeleteIffListed ==
    /\ (/\ pc = "done" /\ ListReturned /\ params.state = "absent"
        /\ ~ListedNothing /\ params.function_version # None) =>
          LET inList == \E i \in 1 .. Len(listed) : listed[i].Version = params.function_version
          IN /\ DeleteIssued <=> inList
             /\ Len(requests) <= 1
             /\ \A i \in 1 .. Len(requests) :
                   /\ requests[i].op = "delete_function"
                   /\ requests[i].Qualifier = params.function_version
             /\ ~inList => (outcome = "exit_json" /\ ~result.changed /\ requests = <<>>)
             /\ response = "ok" => (outcome = "exit_json" /\ result.changed)
    /\ \A i, j \in 1 .. Len(hist) :
          (/\ j = i + 1
           /\ hist[i].state = "absent" /\ hist[i].response = "ok"
           /\ hist[j].state = "absent"
           /\ hist[j].function_version = hist[i].function_version
           /\ hist[j].outcome # "fail_json_aws") =>
              (hist[j].outcome = "exit_json" /\ ~hist[j].changed /\ hist[j].response = None)

C3_Witness ==
    /\ Len(hist) = 2
    /\ hist[1].state = "absent" /\ hist[1].response = "ok" /\ hist[1].changed
    /\ hist[2].state = "absent" /\ hist[2].function_version = hist[1].function_version
    /\ hist[2].fetched
    /\ hist[2].outcome = "exit_json" /\ ~hist[2].changed

\* C4: a publish request rejected for a guard mismatch creates no version
\* and ends with exit_json, changed=false, no version snapshot and the
\* message of the guard that failed.
C4_GuardRejectionIsNoOp ==
    (pc = "done" /\ response \in {"PreconditionFailedException", "InvalidParameterValueException"}) =>
        /\ outcome = "exit_json"
        /\ ~result.changed
        /\ result.version = NoSnapshot
        /\ \A v \in remote : \E i \in 1 .. Len(listed) : listed[i] = v
        /\ response = "PreconditionFailedException" =>
              /\ params.revision_id \notin {None, RemoteRevisionId}
              /\ result.msg = "revision_id does not match $LATEST"
        /\ response = "InvalidParameterValueException" =>
              /\ params.code_sha_256 \notin {None, RemoteCodeSha256}
              /\ result.msg = "code_sha_256 does not match $LATEST"

C4_Witness ==
    /\ pc = "done"
    /\ response = "InvalidParameterValueException"
    /\ params.revision_id = StaleRevisionId
    /\ result.msg = "code_sha_256 does not match $LATEST"

\* C5: a state=present run without drift returns changed=false and the
\* snapshot of the most recent published version, not $LATEST.
C5_NoDriftReturnsPublished ==
    (PresentWithPublished /\ ~(LatestTimeOf(listed) > MaxPublishedTime(listed))) =>
        /\ outcome = "exit_json"
        /\ ~result.changed
        /\ result.version.version # LATEST
        /\ result.version.version # None
        /\ result.version.last_modified = MaxPublishedTime(listed)

\* C6: a state=present run on a list holding only $LATEST issues a publish
\* request and does not end in a crash.
C6_OnlyLatestPublishes ==
    (/\ pc = "done" /\ ListReturned /\ params.state = "present"
     /\ Len(listed) = 1 /\ HasLatest(listed)) =>
        /\ PublishIssued
        /\ outcome # "exception"
        /\ response = "ok" => (outcome = "exit_json" /\ result.changed)

\* C7: two successive state=present runs, the first starting with $LATEST
\* strictly newer than every published version and publishing a version not
\* older than $LATEST, give changed=true then changed=false, and one version
\* is created in total.
C7_PublishTwiceIdempotent ==
    \A i \in 1 .. Len(hist) - 1 :
        (/\ hist[i].state = "present" /\ hist[i].drift
         /\ hist[i].response = "ok" /\ hist[i].notOlder
         /\ hist[i + 1].state = "present" /\ hist[i + 1].fetched) =>
            /\ hist[i].outcome = "exit_json" /\ hist[i].changed
            /\ hist[i + 1].outcome = "exit_json" /\ ~hist[i + 1].changed
            /\ hist[i + 1].response = None
            /\ hist[i].made /\ ~hist[i + 1].made

C7_Witness ==
    /\ Len(hist) = 2
    /\ hist[1].state = "present" /\ hist[1].drift
    /\ hist[1].response = "ok" /\ hist[1].notOlder /\ hist[1].changed
    /\ hist[2].state = "present" /\ hist[2].fetched
    /\ hist[2].outcome = "exit_json" /\ ~hist[2].changed

\* C8: no delete request is ever issued with the qualifier $LATEST.
C8_LatestNeverDeleted ==
    \A i \in 1 .. Len(requests) :
        requests[i].op = "delete_function" => requests[i].Qualifier # LATEST

\* C9: a failure of publish or delete other than a guard mismatch ends the
\* run with a reported failure carrying a message and the original error.
C9_FailuresReportedWithCause ==
    (/\ pc = "done" /\ requests # <<>>
     /\ response \in {"ClientError", "ResourceNotFoundException", "ResourceConflictException"}) =>
        /\ outcome = "fail_json_aws"
        /\ error.msg # None
        /\ error.exception = response

\* C10: a run in check mode issues no publish and no delete request.
C10_CheckModeIssuesNoRequest ==
    params.check_mode => requests = <<>>
====
